---- MODULE Spec2Model ----
(***************************************************************************)
(* Model of the pgfeaturediff front end (the React component App).         *)
(*                                                                         *)
(* Strings of the program (version labels, feature names, categories, the  *)
(* search text) are sequences of one-character strings, so that parseInt,  *)
(* toLowerCase and includes are computed character by character.           *)
(*                                                                         *)
(* The state updates of one handler are batched into one render.  The      *)
(* effects of a commit run in the order of their declaration, each with    *)
(* the values of the render that scheduled it, and the state they set is   *)
(* rendered after the last of them.  A render that throws commits nothing: *)
(* React unmounts the tree, its effects never run and no handler can be    *)
(* called any more.  The theme, the copy-link button and printing touch    *)
(* none of the state below and are left out.                               *)
(***************************************************************************)
EXTENDS Integers, Sequences, FiniteSets, TLC

VARIABLES
    featureData,        \* useState(null): the loaded document, or NullData
    loading,            \* useState(true)
    error,              \* useState(null): NoError or the message of the failure
    fromVersion,        \* useState('')
    toVersion,          \* useState('')
    searchQuery,        \* useState('')
    selectedCategories, \* useState([])
    urlFrom,            \* window.location.search, parameter 'from' (NoParam when absent)
    urlTo,              \* window.location.search, parameter 'to'
    renderedFrom,       \* fromVersion as seen by the last committed render
    renderedTo,         \* toVersion as seen by the last committed render
    pendingEffects,     \* effects of the last commit that have not run yet, in order
    crashed,            \* the last render threw: React has unmounted the tree
    call                \* a direct application of the diff/filter/group chain

vars == <<featureData, loading, error, fromVersion, toVersion, searchQuery,
          selectedCategories, urlFrom, urlTo, renderedFrom, renderedTo,
          pendingEffects, crashed, call>>

(***************************************************************************)
(* Bounds                                                                  *)
(***************************************************************************)
MaxVersions == 3
MaxFeatures == 2

(***************************************************************************)
(* Values                                                                  *)
(***************************************************************************)
EmptyStr == <<>>
NoParam == <<"null">>          \* URLSearchParams.get of an absent parameter
Absent == <<"undefined">>      \* a field that is not present in the JSON
NoError == "null"
NaN == -1

V95 == <<"9", ".", "5">>
V96 == <<"9", ".", "6">>
V10 == <<"1", "0">>
V11 == <<"1", "1">>
V74 == <<"7", ".", "4">>       \* a release that is in no document

\* the releases in chronological order; a document lists a window of them
AllVersions == <<V95, V96, V10, V11>>

NullData == [isNull |-> TRUE, versions |-> <<>>, features |-> <<>>]

Range(s) == {s[i] : i \in 1..Len(s)}

\* Array.prototype.filter
RECURSIVE SelectIdx(_, _, _)
SelectIdx(s, keep, i) ==
    IF i > Len(s) THEN <<>>
    ELSE IF i \in keep THEN <<s[i]>> \o SelectIdx(s, keep, i + 1)
    ELSE SelectIdx(s, keep, i + 1)

\* Array.prototype.indexOf, 0-based, -1 when the element is not found
RECURSIVE IndexFrom(_, _, _)
IndexFrom(s, x, i) ==
    IF i > Len(s) THEN -1
    ELSE IF s[i] = x THEN i - 1
    ELSE IndexFrom(s, x, i + 1)

IndexOf(s, x) == IndexFrom(s, x, 1)

\* Array.prototype.includes
Includes(s, x) == \E i \in 1..Len(s) : s[i] = x

\* JavaScript truthiness of a string-or-absent value
Truthy(x) == x # EmptyStr /\ x # NoParam /\ x # Absent

Digits == {"0", "1", "2", "3", "4", "5", "6", "7", "8", "9"}

DigitVal(c) ==
    CASE c = "0" -> 0 [] c = "1" -> 1 [] c = "2" -> 2 [] c = "3" -> 3
      [] c = "4" -> 4 [] c = "5" -> 5 [] c = "6" -> 6 [] c = "7" -> 7
      [] c = "8" -> 8 [] c = "9" -> 9

\* parseInt: the value of the leading run of digits, NaN when there is none
RECURSIVE ParseDigits(_, _, _)
ParseDigits(s, i, acc) ==
    IF i > Len(s) \/ s[i] \notin Digits THEN acc
    ELSE ParseDigits(s, i + 1, acc * 10 + DigitVal(s[i]))

ParseInt(s) ==
    IF Len(s) = 0 \/ s[1] \notin Digits THEN NaN
    ELSE ParseDigits(s, 1, 0)

\* a >= b on numbers: false as soon as one side is NaN
NumGE(a, b) == a # NaN /\ b # NaN /\ a >= b

LowerChar(c) ==
    CASE c = "A" -> "a" [] c = "B" -> "b" [] c = "C" -> "c" [] OTHER -> c

\* String.prototype.toLowerCase
ToLowerCase(s) == [i \in 1..Len(s) |-> LowerChar(s[i])]

\* String.prototype.includes: q occurs in s as a contiguous substring
StrIncludes(s, q) ==
    \E k \in 0..(Len(s) - Len(q)) : \A j \in 1..Len(q) : s[k + j] = q[j]

(***************************************************************************)
(* The input document (feature_matrix.json)                                *)
(***************************************************************************)
CatA == <<"A", "b">>
CatB == <<"c">>

\* the k-th feature of a document: its name and category are fixed by k
FeatureName(k) ==
    CASE k = 1 -> <<"a", "B">> [] k = 2 -> <<"c", "c">> [] OTHER -> <<"C">>

FeatureCategory(k) == IF k % 2 = 1 THEN CatA ELSE CatB

\* the version lists: the windows of AllVersions of at most MaxVersions labels
VersionLists ==
    {SubSeq(AllVersions, w[1], w[2]) :
        w \in {p \in (1..Len(AllVersions)) \X (0..Len(AllVersions)) :
                  p[2] - p[1] + 1 \in 0..MaxVersions}}

\* introduced_in is a label of the list; deprecated_in is absent or a later
\* label of the list
FeaturesAt(k, vs) ==
    {[id |-> k, name |-> FeatureName(k), category |-> FeatureCategory(k),
      introduced_in |-> vs[i], deprecated_in |-> d] :
        <<i, d>> \in {p \in (1..Len(vs)) \X ({Absent} \cup Range(vs)) :
                        p[2] = Absent \/ \E j \in (p[1] + 1)..Len(vs) : vs[j] = p[2]}}

RECURSIVE FeatureListsOfLen(_, _)
FeatureListsOfLen(vs, n) ==
    IF n = 0 THEN {<<>>}
    ELSE {Append(p, f) : p \in FeatureListsOfLen(vs, n - 1), f \in FeaturesAt(n, vs)}

Documents ==
    {[isNull |-> FALSE, versions |-> vs, features |-> fs] :
        <<vs, fs>> \in UNION {{vs} \X UNION {FeatureListsOfLen(vs, n) : n \in 0..MaxFeatures} :
                                vs \in VersionLists}}

(***************************************************************************)
(* The derived values of a render (the useMemo chain)                      *)
(***************************************************************************)
\* the window with its lower end closed
InWindowClosedLower(idx, fromIdx, toIdx) == idx >= fromIdx /\ idx <= toIdx

\* the window with its upper end open
InWindowOpenUpper(idx, fromIdx, toIdx) == idx > fromIdx /\ idx < toIdx

\* idx > fromIdx && idx <= toIdx
InWindow(idx, fromIdx, toIdx) == idx > fromIdx /\ idx <= toIdx

EmptyDiff == [newFeatures |-> <<>>, deprecatedFeatures |-> <<>>]

\* a diff that puts an inverted range in order before it computes the window
DiffNormalised(data, from, to) ==
    IF data.isNull \/ ~Truthy(from) \/ ~Truthy(to) THEN EmptyDiff
    ELSE LET a == IndexOf(data.versions, from)
             b == IndexOf(data.versions, to)
             fromIdx == IF a <= b THEN a ELSE b
             toIdx == IF a <= b THEN b ELSE a
             fs == data.features
         IN  [newFeatures |->
                 SelectIdx(fs, {i \in 1..Len(fs) :
                     InWindow(IndexOf(data.versions, fs[i].introduced_in),
                              fromIdx, toIdx)}, 1),
              deprecatedFeatures |->
                 SelectIdx(fs, {i \in 1..Len(fs) :
                     /\ Truthy(fs[i].deprecated_in)
                     /\ InWindow(IndexOf(data.versions, fs[i].deprecated_in),
                                 fromIdx, toIdx)}, 1)]

\* useMemo newFeatures / deprecatedFeatures
Diff(data, from, to) ==
    IF data.isNull \/ ~Truthy(from) \/ ~Truthy(to) THEN EmptyDiff
    ELSE LET fromIdx == IndexOf(data.versions, from)
             toIdx == IndexOf(data.versions, to)
             fs == data.features
         IN  IF fromIdx >= toIdx THEN EmptyDiff
             ELSE [newFeatures |->
                      SelectIdx(fs, {i \in 1..Len(fs) :
                          InWindow(IndexOf(data.versions, fs[i].introduced_in),
                                   fromIdx, toIdx)}, 1),
                   deprecatedFeatures |->
                      SelectIdx(fs, {i \in 1..Len(fs) :
                          /\ Truthy(fs[i].deprecated_in)
                          /\ InWindow(IndexOf(data.versions, fs[i].deprecated_in),
                                      fromIdx, toIdx)}, 1)]

\* a category filter that is applied to an empty selection too
FilterByCategoryAlways(feats, selCats) ==
    SelectIdx(feats, {i \in 1..Len(feats) : Includes(selCats, feats[i].category)}, 1)

\* the category filter of filteredNewFeatures / filteredDeprecatedFeatures
FilterByCategory(feats, selCats) ==
    IF Len(selCats) > 0
    THEN SelectIdx(feats, {i \in 1..Len(feats) : Includes(selCats, feats[i].category)}, 1)
    ELSE feats

\* a text filter that compares the lower-cased fields with the text as typed
FilterByTextRawQuery(feats, text) ==
    IF Truthy(text)
    THEN SelectIdx(feats, {i \in 1..Len(feats) :
             \/ StrIncludes(ToLowerCase(feats[i].name), text)
             \/ StrIncludes(ToLowerCase(feats[i].category), text)}, 1)
    ELSE feats

\* the text filter of filteredNewFeatures / filteredDeprecatedFeatures
FilterByText(feats, text) ==
    IF Truthy(text)
    THEN LET query == ToLowerCase(text)
         IN  SelectIdx(feats, {i \in 1..Len(feats) :
                 \/ StrIncludes(ToLowerCase(feats[i].name), query)
                 \/ StrIncludes(ToLowerCase(feats[i].category), query)}, 1)
    ELSE feats

FilterFeatures(feats, selCats, text) ==
    FilterByText(FilterByCategory(feats, selCats), text)

\* { ...feature, type }
Tagged(f, type) ==
    [id |-> f.id, name |-> f.name, category |-> f.category,
     introduced_in |-> f.introduced_in, deprecated_in |-> f.deprecated_in,
     type |-> type]

TagAll(feats, type) == [i \in 1..Len(feats) |-> Tagged(feats[i], type)]

OfCategory(feats, c) ==
    SelectIdx(feats, {i \in 1..Len(feats) : feats[i].category = c}, 1)

\* a grouping that shows a feature once: a deprecated feature that is already
\* in its group as new is skipped
FeaturesByCategoryOnce(filteredNew, filteredDep) ==
    [c \in {f.category : f \in Range(filteredNew) \cup Range(filteredDep)} |->
        TagAll(OfCategory(filteredNew, c), "new") \o
        TagAll(SelectIdx(filteredDep,
                         {i \in 1..Len(filteredDep) :
                             /\ filteredDep[i].category = c
                             /\ \A f \in Range(filteredNew) : f.id # filteredDep[i].id},
                         1), "deprecated")]

\* useMemo featuresByCategory: the entries of a category are its new features,
\* pushed first, then its deprecated features
FeaturesByCategory(filteredNew, filteredDep) ==
    [c \in {f.category : f \in Range(filteredNew) \cup Range(filteredDep)} |->
        TagAll(OfCategory(filteredNew, c), "new") \o
        TagAll(OfCategory(filteredDep, c), "deprecated")]

\* the keys of the summary object in insertion order
RECURSIVE FirstSeen(_, _, _)
FirstSeen(feats, i, seen) ==
    IF i > Len(feats) THEN seen
    ELSE IF Includes(seen, feats[i].category) THEN FirstSeen(feats, i + 1, seen)
    ELSE FirstSeen(feats, i + 1, Append(seen, feats[i].category))

\* Array.prototype.sort((a, b) => b.total - a.total): stable, by total descending
RECURSIVE InsertByTotal(_, _)
InsertByTotal(sorted, e) ==
    IF sorted = <<>> THEN <<e>>
    ELSE IF e.total > sorted[1].total THEN <<e>> \o sorted
    ELSE <<sorted[1]>> \o InsertByTotal(Tail(sorted), e)

RECURSIVE SortByTotal(_, _, _)
SortByTotal(entries, i, sorted) ==
    IF i > Len(entries) THEN sorted
    ELSE SortByTotal(entries, i + 1, InsertByTotal(sorted, entries[i]))

\* useMemo categorySummary
CategorySummary(newFeats, depFeats) ==
    LET keys == FirstSeen(depFeats, 1, FirstSeen(newFeats, 1, <<>>))
        entries == [k \in 1..Len(keys) |->
            LET n == Len(OfCategory(newFeats, keys[k]))
                d == Len(OfCategory(depFeats, keys[k]))
            IN  [category |-> keys[k], new |-> n, deprecated |-> d, total |-> n + d]]
    IN  SortByTotal(entries, 1, <<>>)

(***************************************************************************)
(* What a render shows                                                     *)
(***************************************************************************)
MsgSelectValidRange == "Select a valid version range to see new features"
MsgNoMatch == "No features match your search criteria"
ReferenceError == "ReferenceError: selectedCategory is not defined"

\* the last alternative of the message; the code never gets to it
MsgNoNewFeatures == "No new features found in this version range"

\* the message of the empty features list; the last operand of the inner
\* condition reads selectedCategory, which is declared nowhere
EmptyStateMessage(from, to, text) ==
    IF NumGE(ParseInt(from), ParseInt(to)) THEN MsgSelectValidRange
    ELSE IF Truthy(text) THEN MsgNoMatch
    ELSE ReferenceError

\* the render of the main view throws
RenderThrows(data, from, to, selCats, text) ==
    LET d == Diff(data, from, to)
    IN  /\ Len(FilterFeatures(d.newFeatures, selCats, text)) = 0
        /\ Len(FilterFeatures(d.deprecatedFeatures, selCats, text)) = 0
        /\ EmptyStateMessage(from, to, text) = ReferenceError

\* a summary counted on the filtered lists
RenderedSummaryOfFiltered(data, from, to, selCats, text) ==
    CategorySummary(FilterFeatures(Diff(data, from, to).newFeatures, selCats, text),
                    FilterFeatures(Diff(data, from, to).deprecatedFeatures, selCats, text))

\* the category summary that a render of the given state computes: its inputs
\* are the two lists of the diff
RenderedSummary(data, from, to, selCats, text) ==
    CategorySummary(Diff(data, from, to).newFeatures,
                    Diff(data, from, to).deprecatedFeatures)

\* the values of the last committed render
newFeatures == Diff(featureData, renderedFrom, renderedTo).newFeatures
deprecatedFeatures == Diff(featureData, renderedFrom, renderedTo).deprecatedFeatures
filteredNewFeatures == FilterFeatures(newFeatures, selectedCategories, searchQuery)
filteredDeprecatedFeatures ==
    FilterFeatures(deprecatedFeatures, selectedCategories, searchQuery)
featuresByCategory == FeaturesByCategory(filteredNewFeatures, filteredDeprecatedFeatures)
categorySummary ==
    RenderedSummary(featureData, renderedFrom, renderedTo, selectedCategories, searchQuery)

\* which of the three returns of App the screen shows
Screen ==
    IF loading THEN "loading"
    ELSE IF error # NoError THEN "error"
    ELSE IF crashed THEN "blank"
    ELSE "main"

\* the yellow banner under the version selectors
RangeWarningShown ==
    /\ Screen = "main"
    /\ ~featureData.isNull /\ Truthy(renderedFrom) /\ Truthy(renderedTo)
    /\ IndexOf(featureData.versions, renderedFrom) >=
           IndexOf(featureData.versions, renderedTo)

(***************************************************************************)
(* The component as a state machine                                        *)
(***************************************************************************)
UrlValues == {NoParam, V74, V10}
Queries == {EmptyStr, <<"B">>}
FetchErrors == {"Failed to load feature data", "Failed to fetch"}

NoCall == [done |-> FALSE, data |-> NullData, lower |-> EmptyStr, upper |-> EmptyStr,
           result |-> EmptyDiff]

Init ==
    /\ featureData = NullData
    /\ loading = TRUE
    /\ error = NoError
    /\ fromVersion = EmptyStr
    /\ toVersion = EmptyStr
    /\ searchQuery = EmptyStr
    /\ selectedCategories = <<>>
    /\ urlFrom \in UrlValues
    /\ urlTo \in UrlValues
    /\ renderedFrom = EmptyStr
    /\ renderedTo = EmptyStr
    /\ pendingEffects = <<>>
    /\ crashed = FALSE
    /\ call = NoCall

\* a render that sorts the feature array of the document in place
DocumentAfterRenderSorted(data) ==
    [data EXCEPT !.features = [i \in 1..Len(data.features) |->
                                   data.features[Len(data.features) + 1 - i]]]

\* what a render leaves of the document: filter returns new arrays and the
\* grouping pushes { ...feature, type }, so nothing is written to it
DocumentAfterRender(data) == data

\* a state update made outside the effects: React renders at once, and the
\* effect on [fromVersion, toVersion] is scheduled when one of them changed
Rerender ==
    /\ renderedFrom' = fromVersion'
    /\ renderedTo' = toVersion'
    /\ crashed' = /\ ~loading' /\ error' = NoError
                  /\ RenderThrows(featureData', fromVersion', toVersion',
                                  selectedCategories', searchQuery')
    /\ pendingEffects' =
          IF crashed' THEN <<>>
          ELSE (IF featureData' # featureData THEN <<"readUrl">> ELSE <<>>) \o
               (IF <<fromVersion', toVersion'>> # <<renderedFrom, renderedTo>>
                THEN <<"updateUrl">> ELSE <<>>)

\* the effects of a commit run one after the other; the state they set is
\* rendered when the last of them has run
AfterEffect ==
    LET rest == Tail(pendingEffects)
    IN  IF rest # <<>> \/ <<fromVersion', toVersion'>> = <<renderedFrom, renderedTo>>
        THEN /\ pendingEffects' = rest
             /\ UNCHANGED <<renderedFrom, renderedTo, crashed>>
        ELSE Rerender

\* .then(data => ...) of the load effect
DefaultFrom(data) ==
    IF Len(data.versions) >= 2 THEN data.versions[Len(data.versions) - 1] ELSE EmptyStr

DefaultTo(data) ==
    IF Len(data.versions) >= 2 THEN data.versions[Len(data.versions)] ELSE EmptyStr

FetchResolve(data) ==
    /\ loading
    /\ featureData' = data
    /\ IF Len(data.versions) >= 2
       THEN /\ fromVersion' = DefaultFrom(data)
            /\ toVersion' = DefaultTo(data)
       ELSE UNCHANGED <<fromVersion, toVersion>>
    /\ loading' = FALSE
    /\ UNCHANGED <<error, searchQuery, selectedCategories, urlFrom, urlTo, call>>
    /\ Rerender

\* a failure handler that forgets setLoading(false): the spinner stays and the
\* document may still arrive
FetchFailKeepsLoading(msg) ==
    /\ loading
    /\ error = NoError
    /\ error' = msg
    /\ UNCHANGED <<featureData, loading, fromVersion, toVersion, searchQuery,
                   selectedCategories, urlFrom, urlTo, call,
                   renderedFrom, renderedTo, pendingEffects, crashed>>

\* .catch(err => ...) of the load effect
FetchFail(msg) ==
    /\ loading
    /\ error' = msg
    /\ loading' = FALSE
    /\ UNCHANGED <<fromVersion, toVersion, searchQuery,
                   selectedCategories, urlFrom, urlTo, call>>
    /\ featureData' = DocumentAfterRender(featureData)
    /\ Rerender

\* a URL parameter that is applied without looking it up in versions
UrlValueAppliesUnchecked(param, data) == Truthy(param)

\* a URL parameter is applied when it is non-empty and a member of versions
UrlValueApplies(param, data) == Truthy(param) /\ Includes(data.versions, param)

\* useEffect(..., [featureData]): read URL parameters and set versions
ReadUrlEffect ==
    /\ ~crashed
    /\ pendingEffects # <<>> /\ Head(pendingEffects) = "readUrl"
    /\ IF featureData.isNull
       THEN UNCHANGED <<fromVersion, toVersion>>
       ELSE /\ fromVersion' = IF UrlValueApplies(urlFrom, featureData)
                              THEN urlFrom ELSE fromVersion
            /\ toVersion' = IF UrlValueApplies(urlTo, featureData)
                            THEN urlTo ELSE toVersion
    /\ UNCHANGED <<featureData, loading, error, searchQuery, selectedCategories,
                   urlFrom, urlTo, call>>
    /\ AfterEffect

\* a write-back that sets 'from' alone
UpdateUrlEffectFromOnly ==
    /\ ~crashed
    /\ pendingEffects # <<>> /\ Head(pendingEffects) = "updateUrl"
    /\ IF ~Truthy(renderedFrom) \/ ~Truthy(renderedTo)
       THEN UNCHANGED <<urlFrom, urlTo>>
       ELSE /\ urlFrom' = renderedFrom
            /\ UNCHANGED urlTo
    /\ UNCHANGED <<featureData, loading, error, fromVersion, toVersion, searchQuery,
                   selectedCategories, call>>
    /\ AfterEffect

\* useEffect(..., [fromVersion, toVersion]): update URL when versions change;
\* it writes the values of the render that scheduled it
UpdateUrlEffect ==
    /\ ~crashed
    /\ pendingEffects # <<>> /\ Head(pendingEffects) = "updateUrl"
    /\ IF ~Truthy(renderedFrom) \/ ~Truthy(renderedTo)
       THEN UNCHANGED <<urlFrom, urlTo>>
       ELSE /\ urlFrom' = renderedFrom
            /\ urlTo' = renderedTo
    /\ UNCHANGED <<featureData, loading, error, fromVersion, toVersion, searchQuery,
                   selectedCategories, call>>
    /\ AfterEffect

\* the main view is on screen and no effect is waiting: the user can act
Interactive == Screen = "main" /\ pendingEffects = <<>>

compareVersions(v1, v2) ==
    IndexOf(featureData.versions, v1) - IndexOf(featureData.versions, v2)

\* a handler that adjusts toVersion only when it lies strictly before the new
\* fromVersion
handleFromVersionChangeStrict(newFromVersion) ==
    /\ Interactive
    /\ fromVersion' = newFromVersion
    /\ LET fromIdx == IndexOf(featureData.versions, newFromVersion)
       IN  IF /\ compareVersions(toVersion, newFromVersion) < 0
              /\ fromIdx < Len(featureData.versions) - 1
           THEN toVersion' = featureData.versions[fromIdx + 2]
           ELSE UNCHANGED toVersion
    /\ UNCHANGED <<loading, error, searchQuery, selectedCategories,
                   urlFrom, urlTo, call>>
    /\ featureData' = DocumentAfterRender(featureData)
    /\ Rerender

\* onChange of the From select
handleFromVersionChange(newFromVersion) ==
    /\ Interactive
    /\ fromVersion' = newFromVersion
    /\ LET fromIdx == IndexOf(featureData.versions, newFromVersion)
       IN  IF /\ compareVersions(toVersion, newFromVersion) <= 0
              /\ fromIdx < Len(featureData.versions) - 1
           THEN toVersion' = featureData.versions[fromIdx + 2]
           ELSE UNCHANGED toVersion
    /\ UNCHANGED <<loading, error, searchQuery, selectedCategories,
                   urlFrom, urlTo, call>>
    /\ featureData' = DocumentAfterRender(featureData)
    /\ Rerender

\* the options of the To select that are not disabled
ToOptions ==
    {v \in Range(featureData.versions) :
        ~(IndexOf(featureData.versions, v) <= IndexOf(featureData.versions, fromVersion))}

\* onChange of the To select
setToVersion(v) ==
    /\ Interactive
    /\ toVersion' = v
    /\ UNCHANGED <<loading, error, fromVersion, searchQuery,
                   selectedCategories, urlFrom, urlTo, call>>
    /\ featureData' = DocumentAfterRender(featureData)
    /\ Rerender

\* onChange of the search input, and its clear button
setSearchQuery(text) ==
    /\ Interactive
    /\ searchQuery' = text
    /\ UNCHANGED <<loading, error, fromVersion, toVersion,
                   selectedCategories, urlFrom, urlTo, call>>
    /\ featureData' = DocumentAfterRender(featureData)
    /\ Rerender

\* onClick of a button of the category summary
toggleCategory(category) ==
    /\ Interactive
    /\ selectedCategories' =
          IF Includes(selectedCategories, category)
          THEN SelectIdx(selectedCategories,
                         {i \in 1..Len(selectedCategories) :
                              selectedCategories[i] # category}, 1)
          ELSE Append(selectedCategories, category)
    /\ UNCHANGED <<loading, error, fromVersion, toVersion, searchQuery,
                   urlFrom, urlTo, call>>
    /\ featureData' = DocumentAfterRender(featureData)
    /\ Rerender

\* onClick of "Clear selection"
clearSelection ==
    /\ Interactive
    /\ Len(categorySummary) > 0 /\ Len(selectedCategories) > 0
    /\ selectedCategories' = <<>>
    /\ UNCHANGED <<loading, error, fromVersion, toVersion, searchQuery,
                   urlFrom, urlTo, call>>
    /\ featureData' = DocumentAfterRender(featureData)
    /\ Rerender

Next ==
    \/ \E data \in Documents : FetchResolve(data)
    \/ \E msg \in FetchErrors : FetchFail(msg)
    \/ ReadUrlEffect
    \/ UpdateUrlEffect
    \/ \E v \in Range(featureData.versions) : handleFromVersionChange(v)
    \/ \E v \in ToOptions : setToVersion(v)
    \/ \E text \in Queries : setSearchQuery(text)
    \/ \E k \in 1..Len(categorySummary) : toggleCategory(categorySummary[k].category)
    \/ clearSelection

Spec == Init /\ [][Next]_vars

(***************************************************************************)
(* The range computation applied to arbitrary labels                       *)
(***************************************************************************)
DiffLabels == Range(AllVersions) \cup {V74, EmptyStr}

InitDiff ==
    /\ featureData = NullData
    /\ loading = TRUE
    /\ error = NoError
    /\ fromVersion = EmptyStr
    /\ toVersion = EmptyStr
    /\ searchQuery = EmptyStr
    /\ selectedCategories = <<>>
    /\ urlFrom = NoParam
    /\ urlTo = NoParam
    /\ renderedFrom = EmptyStr
    /\ renderedTo = EmptyStr
    /\ pendingEffects = <<>>
    /\ crashed = FALSE
    /\ call \in {[done |-> FALSE, data |-> d, lower |-> lo, upper |-> up,
                  result |-> EmptyDiff] :
                    d \in Documents, lo \in DiffLabels, up \in DiffLabels}

ApplyDiff ==
    /\ ~call.done
    /\ call' = [call EXCEPT !.done = TRUE,
                            !.result = Diff(call.data, call.lower, call.upper)]
    /\ UNCHANGED <<featureData, loading, error, fromVersion, toVersion, searchQuery,
                   selectedCategories, urlFrom, urlTo, renderedFrom, renderedTo,
                   pendingEffects, crashed>>

NextDiff == ApplyDiff

SpecDiff == InitDiff /\ [][NextDiff]_vars

(***************************************************************************)
(* Properties of the range computation                                     *)
(***************************************************************************)
\* the position of a label of the list (the list has no duplicates)
Pos(vs, x) == CHOOSE j \in 1..Len(vs) : vs[j] = x

IsLabelOf(vs, x) == \E j \in 1..Len(vs) : vs[j] = x

\* r lists the elements of s at the positions keep, in the order of s
IsSubsequenceAt(r, s, keep) ==
    /\ Len(r) = Cardinality(keep)
    /\ \A k \in 1..Len(r) :
          r[k] = s[CHOOSE i \in keep : Cardinality({j \in keep : j <= i}) = k]

\* label x lies after lower and at or before upper in the list
InRangeWindow(vs, x, lower, upper) ==
    /\ IsLabelOf(vs, x)
    /\ Pos(vs, x) > Pos(vs, lower)
    /\ Pos(vs, x) <= Pos(vs, upper)

ValidCall ==
    /\ call.done
    /\ IsLabelOf(call.data.versions, call.lower)
    /\ IsLabelOf(call.data.versions, call.upper)
    /\ Pos(call.data.versions, call.lower) < Pos(call.data.versions, call.upper)

\* C1: for lower strictly before upper, 'introduced' holds exactly the features
\* whose introduced_in lies in (lower, upper], in the order of the feature list
C1_IntroducedIsWindow ==
    ValidCall =>
        LET fs == call.data.features
        IN  IsSubsequenceAt(call.result.newFeatures, fs,
                {i \in 1..Len(fs) :
                    InRangeWindow(call.data.versions, fs[i].introduced_in,
                                  call.lower, call.upper)})

\* the example of the specification on the list 9.6, 10, 11: A introduced in
\* 10, B introduced in 11, diff from 9.6 to 11 gives introduced = [A, B]
C1_Witness ==
    /\ ValidCall
    /\ call.data.versions = <<V96, V10, V11>>
    /\ call.lower = V96 /\ call.upper = V11
    /\ Len(call.data.features) = 2
    /\ call.data.features[1].introduced_in = V10
    /\ call.data.features[2].introduced_in = V11
    /\ call.result.newFeatures = call.data.features

\* C2: for lower strictly before upper, 'deprecated' holds exactly the features
\* that have a deprecated_in in (lower, upper]; a feature without deprecated_in
\* is never deprecated
C2_DeprecatedIsWindow ==
    ValidCall =>
        LET fs == call.data.features
        IN  /\ IsSubsequenceAt(call.result.deprecatedFeatures, fs,
                  {i \in 1..Len(fs) :
                      /\ fs[i].deprecated_in # Absent
                      /\ InRangeWindow(call.data.versions, fs[i].deprecated_in,
                                       call.lower, call.upper)})
            /\ \A f \in Range(call.result.deprecatedFeatures) :
                  f.deprecated_in # Absent

\* A introduced in 10 and never deprecated, B introduced in 10 and deprecated
\* in 11: from 9.6 to 11 both are introduced and B alone is deprecated
C2_Witness ==
    /\ ValidCall
    /\ call.data.versions = <<V96, V10, V11>>
    /\ call.lower = V96 /\ call.upper = V11
    /\ Len(call.data.features) = 2
    /\ call.data.features[1].deprecated_in = Absent
    /\ call.data.features[2].deprecated_in = V11
    /\ call.result.newFeatures = call.data.features
    /\ call.result.deprecatedFeatures = <<call.data.features[2]>>

\* C3: for two labels of the list with lower at or after upper, both results
\* are empty
C3_DegenerateRangeIsEmpty ==
    (/\ call.done
     /\ IsLabelOf(call.data.versions, call.lower)
     /\ IsLabelOf(call.data.versions, call.upper)
     /\ Pos(call.data.versions, call.lower) >= Pos(call.data.versions, call.upper))
    => /\ call.result.newFeatures = <<>>
       /\ call.result.deprecatedFeatures = <<>>

\* an inverted range over a feature introduced and deprecated between the two
\* labels
C3_Witness ==
    /\ call.done
    /\ call.data.versions = <<V96, V10, V11>>
    /\ call.lower = V11 /\ call.upper = V96
    /\ Len(call.data.features) = 2
    /\ call.data.features[1].introduced_in = V10
    /\ call.data.features[1].deprecated_in = V11
    /\ call.result = EmptyDiff

SearchOrCategoryStep ==
    searchQuery' # searchQuery \/ selectedCategories' # selectedCategories

\* C5: a change of the search text or of the selected categories leaves the
\* category summary as it was
C5_SummaryIgnoresFilters ==
    [][SearchOrCategoryStep =>
           RenderedSummary(featureData', renderedFrom', renderedTo',
                           selectedCategories', searchQuery') = categorySummary]_vars

SummaryTotal(summary) ==
    LET RECURSIVE Sum(_)
        Sum(k) == IF k = 0 THEN 0 ELSE summary[k].total + Sum(k - 1)
    IN  Sum(Len(summary))

\* a search text and a category selection hide a part of the diff, and the
\* summary still counts all of it
C5_Witness ==
    /\ Screen = "main"
    /\ Truthy(searchQuery)
    /\ Len(selectedCategories) > 0
    /\ Len(filteredNewFeatures) + Len(filteredDeprecatedFeatures) > 0
    /\ SummaryTotal(categorySummary) = Len(newFeatures) + Len(deprecatedFeatures)
    /\ SummaryTotal(categorySummary) >
           Len(filteredNewFeatures) + Len(filteredDeprecatedFeatures)

\* the selections that name every category of the document once
FullSelections(data) ==
    LET cats == {f.category : f \in Range(data.features)}
    IN  {sel \in [1..Cardinality(cats) -> cats] : Range(sel) = cats}

\* C6: filtering with no category selected gives the lists that filtering with
\* every category of the document selected gives
C6_EmptySelectionIsAll ==
    (~featureData.isNull) =>
        \A sel \in FullSelections(featureData) :
            /\ FilterFeatures(newFeatures, <<>>, searchQuery) =
                   FilterFeatures(newFeatures, sel, searchQuery)
            /\ FilterFeatures(deprecatedFeatures, <<>>, searchQuery) =
                   FilterFeatures(deprecatedFeatures, sel, searchQuery)

\* both categories of the document are selected and the lists shown are those
\* of the empty selection, which are not empty
C6_Witness ==
    /\ Screen = "main"
    /\ Len(selectedCategories) = 2
    /\ selectedCategories \in FullSelections(featureData)
    /\ Len(filteredNewFeatures) = 2
    /\ Len(filteredDeprecatedFeatures) > 0
    /\ filteredNewFeatures = FilterFeatures(newFeatures, <<>>, searchQuery)
    /\ filteredDeprecatedFeatures = FilterFeatures(deprecatedFeatures, <<>>, searchQuery)

Count(s, x) == Cardinality({i \in 1..Len(s) : s[i] = x})

\* the rendered range is valid and both labels of f lie in its window
BothInWindow(f) ==
    /\ IsLabelOf(featureData.versions, renderedFrom)
    /\ IsLabelOf(featureData.versions, renderedTo)
    /\ f.deprecated_in # Absent
    /\ InRangeWindow(featureData.versions, f.introduced_in, renderedFrom, renderedTo)
    /\ InRangeWindow(featureData.versions, f.deprecated_in, renderedFrom, renderedTo)

InBothRoles(f) ==
    /\ f.category \in DOMAIN featuresByCategory
    /\ Count(featuresByCategory[f.category], Tagged(f, "new")) = 1
    /\ Count(featuresByCategory[f.category], Tagged(f, "deprecated")) = 1

\* C7: a feature introduced and deprecated inside the window is in both
\* results and, when the filters retain it, is in its category group twice,
\* once as new and once as deprecated
C7_BothRolesKept ==
    \A f \in Range(featureData.features) :
        BothInWindow(f) =>
            /\ Count(newFeatures, f) = 1
            /\ Count(deprecatedFeatures, f) = 1
            /\ (f \in Range(filteredNewFeatures) \/ f \in Range(filteredDeprecatedFeatures))
                   => InBothRoles(f)

C7_Witness ==
    /\ Screen = "main"
    /\ \E f \in Range(featureData.features) :
          /\ BothInWindow(f)
          /\ f \in Range(filteredNewFeatures)
          /\ InBothRoles(f)
          /\ Len(featuresByCategory[f.category]) = 2

\* the step of the effect that reads the URL, on a document of two versions
\* or more
ReadUrlStep ==
    /\ pendingEffects # <<>> /\ Head(pendingEffects) = "readUrl"
    /\ pendingEffects' # pendingEffects
    /\ Len(featureData.versions) >= 2

UpdateUrlStep ==
    /\ pendingEffects # <<>> /\ Head(pendingEffects) = "updateUrl"

\* the selection that startup is to end with: the URL value when it is a label
\* of the list, the default otherwise
Seeded(urlValue, default) ==
    IF IsLabelOf(featureData.versions, urlValue) THEN urlValue ELSE default

\* C8: the effect that reads the URL leaves each selection at the URL value when
\* that value is a label of the list and at the default otherwise (the last
\* version but one for 'from', the last version for 'to'), and the write-back
\* that follows does not change the selection
C8_StartupSeedsSelection ==
    [][/\ ReadUrlStep =>
            LET vs == featureData.versions
            IN  /\ fromVersion' = Seeded(urlFrom, vs[Len(vs) - 1])
                /\ toVersion' = Seeded(urlTo, vs[Len(vs)])
                /\ IsLabelOf(vs, fromVersion') /\ IsLabelOf(vs, toVersion')
       /\ UpdateUrlStep => UNCHANGED <<fromVersion, toVersion>>]_vars

\* the URL named a label of the list for 'from' and a release that is not in
\* the list for 'to': the effect has replaced the default 'from' and kept the
\* default 'to'
C8_Witness ==
    /\ ~featureData.isNull
    /\ pendingEffects = <<"updateUrl">>
    /\ urlFrom = V10 /\ urlTo = V74
    /\ fromVersion = V10 /\ renderedFrom = V96
    /\ toVersion = DefaultTo(featureData) /\ toVersion # V74

NothingLoaded ==
    /\ featureData.isNull
    /\ newFeatures = <<>> /\ deprecatedFeatures = <<>>
    /\ Len(categorySummary) = 0

\* C9: a failed fetch puts the view in the error state with loading false; no
\* step leaves that state, and no data, diff or summary exists in it
C9_FetchFailureIsTerminal ==
    [][/\ (error = NoError /\ error' # NoError) =>
              (Screen' = "error" /\ ~loading' /\ NothingLoaded')
       /\ error # NoError =>
              (Screen' = "error" /\ ~loading' /\ NothingLoaded' /\ error' = error)]_vars

C9_Witness ==
    /\ Screen = "error"
    /\ error = "Failed to load feature data"
    /\ ~loading
    /\ NothingLoaded

\* C10: whenever the document is loaded and the rendered 'from' is not strictly
\* before the rendered 'to' by position, the diff is empty, the banner that
\* asks for a newer "To Version" is shown and the view is not the error view
C10_InvalidRangeShowsGuidance ==
    (/\ ~loading /\ ~featureData.isNull
     /\ <<fromVersion, toVersion>> = <<renderedFrom, renderedTo>>
     /\ ~(IndexOf(featureData.versions, fromVersion) <
              IndexOf(featureData.versions, toVersion)))
    => /\ newFeatures = <<>> /\ deprecatedFeatures = <<>>
       /\ RangeWarningShown
       /\ Screen # "error"


\* the main view is rendered, no effect is waiting and both versions are
\* selected
SelectionSettled ==
    /\ Screen = "main"
    /\ pendingEffects = <<>>
    /\ Truthy(fromVersion) /\ Truthy(toVersion)

\* C11: once the effects have run and both selections are non-empty, the URL
\* parameters 'from' and 'to' equal the selected versions, and the effect that
\* writes the URL changes neither selection
C11_UrlFollowsSelection ==
    /\ [](SelectionSettled => (urlFrom = fromVersion /\ urlTo = toVersion))
    /\ [][UpdateUrlStep =>
             (/\ UNCHANGED <<fromVersion, toVersion>>
              /\ (Truthy(renderedFrom) /\ Truthy(renderedTo))
                     => (urlFrom' = renderedFrom /\ urlTo' = renderedTo))]_vars

\* the user has moved 'from' away from the default and from what the URL held
\* at startup, and the URL has followed
C11_Witness ==
    /\ SelectionSettled
    /\ fromVersion = V95 /\ toVersion = V96
    /\ Len(featureData.versions) = 3
    /\ urlFrom = V95 /\ urlTo = V96


\* q is a contiguous part of s
IsSubstring(q, s) ==
    \E a \in 1..(Len(s) + 1) :
        a + Len(q) - 1 <= Len(s) /\ SubSeq(s, a, a + Len(q) - 1) = q

\* the lower-cased text is a part of the lower-cased name or category of f
TextMatches(f, text) ==
    \/ IsSubstring(ToLowerCase(text), ToLowerCase(f.name))
    \/ IsSubstring(ToLowerCase(text), ToLowerCase(f.category))

\* shown is what the text filter is to keep of given
TextFilterKeeps(shown, given) ==
    IF searchQuery = EmptyStr THEN shown = given
    ELSE IsSubsequenceAt(shown, given,
             {i \in 1..Len(given) : TextMatches(given[i], searchQuery)})

\* C12: with a non-empty search text the features retained are exactly those
\* whose lower-cased name or category contains the lower-cased text; with an
\* empty search text every feature is retained
C12_TextFilterIsSubstringMatch ==
    /\ TextFilterKeeps(filteredNewFeatures,
                       FilterByCategory(newFeatures, selectedCategories))
    /\ TextFilterKeeps(filteredDeprecatedFeatures,
                       FilterByCategory(deprecatedFeatures, selectedCategories))

\* the text "B" keeps the feature named "aB" and drops the feature named "cc"
\* of category "c"
C12_Witness ==
    /\ Screen = "main"
    /\ searchQuery = <<"B">>
    /\ selectedCategories = <<>>
    /\ Len(newFeatures) = 2
    /\ filteredNewFeatures = <<newFeatures[1]>>
    /\ newFeatures[1].name = <<"a", "B">>


\* every entry of the grouped output is a feature of the document with a type
\* added, and no record of the document carries a type
EntriesAreTaggedCopies ==
    /\ \A c \in DOMAIN featuresByCategory :
          \A k \in 1..Len(featuresByCategory[c]) :
              LET e == featuresByCategory[c][k]
              IN  /\ e.type \in {"new", "deprecated"}
                  /\ \E f \in Range(featureData.features) : e = Tagged(f, e.type)
    /\ \A f \in Range(featureData.features) :
          DOMAIN f = {"id", "name", "category", "introduced_in", "deprecated_in"}

\* C13: once loaded, the document is never modified: no step changes it, and
\* the tagged entries of the grouped output are built beside its records
C13_DocumentIsReadOnly ==
    /\ [][(~featureData.isNull) => featureData' = featureData]_vars
    /\ []EntriesAreTaggedCopies

\* range, search text and selection have all been changed on a document of two
\* features, and the grouped output holds tagged entries
C13_Witness ==
    /\ Screen = "main"
    /\ Len(featureData.features) = 2
    /\ fromVersion # DefaultFrom(featureData)
    /\ Truthy(searchQuery)
    /\ Len(selectedCategories) > 0
    /\ \E c \in DOMAIN featuresByCategory : Len(featuresByCategory[c]) = 2
    /\ EntriesAreTaggedCopies


\* the empty features list is what the main view shows
EmptyStateShown ==
    /\ Screen = "main"
    /\ Len(filteredNewFeatures) = 0
    /\ Len(filteredDeprecatedFeatures) = 0

ShownMessage == EmptyStateMessage(renderedFrom, renderedTo, searchQuery)

\* 'from' is strictly before 'to' by position in the version list
RangeValid(from, to) ==
    /\ IsLabelOf(featureData.versions, from)
    /\ IsLabelOf(featureData.versions, to)
    /\ Pos(featureData.versions, from) < Pos(featureData.versions, to)

\* C14: when both filtered lists are empty, the message that asks for a valid
\* version range is shown if and only if 'from' is not strictly before 'to' by
\* position in the version list
C14_MessageByListPosition ==
    EmptyStateShown =>
        (ShownMessage = MsgSelectValidRange <=> ~RangeValid(renderedFrom, renderedTo))

\* the selection handlers: in a state where the user can act, a step that
\* changes a selected version
SelectionStep ==
    /\ Interactive
    /\ <<fromVersion', toVersion'>> # <<fromVersion, toVersion>>

LastVersion == featureData.versions[Len(featureData.versions)]

\* C15: a change of 'from' or 'to' made through the selectors keeps 'from'
\* strictly before 'to', unless 'from' becomes the last version; a change of
\* 'from' leaves 'to' alone when 'to' is after the new 'from', and otherwise
\* moves 'to' to the successor of the new 'from' (the last version has none,
\* and 'to' stays)
C15_SelectorsKeepRangeValid ==
    [][SelectionStep =>
          LET vs == featureData.versions
          IN  /\ RangeValid(fromVersion, toVersion) =>
                    (RangeValid(fromVersion', toVersion') \/ fromVersion' = LastVersion)
              /\ fromVersion' # fromVersion =>
                    /\ IsLabelOf(vs, fromVersion')
                    /\ toVersion' =
                          IF IsLabelOf(vs, toVersion)
                               /\ Pos(vs, toVersion) > Pos(vs, fromVersion')
                          THEN toVersion
                          ELSE IF fromVersion' = LastVersion THEN toVersion
                          ELSE vs[Pos(vs, fromVersion') + 1]]_vars

\* the handler has just moved 'from' from 9.5 to 9.6 while 'to' was 9.6, and
\* has moved 'to' on to 10; the URL still holds the selection before the change
C15_Witness ==
    /\ Screen = "main"
    /\ pendingEffects = <<"updateUrl">>
    /\ featureData.versions = <<V95, V96, V10>>
    /\ urlFrom = V95 /\ urlTo = V96
    /\ fromVersion = V96 /\ toVersion = V10

\* C16: whenever the document is loaded and both filtered lists are empty, the
\* render completes and, for a valid range, shows 'No features match your
\* search criteria' when a search text or a category selection is active and
\* 'No new features found in this version range' otherwise
C16_EmptyStateRenders ==
    (/\ ~loading /\ ~featureData.isNull
     /\ <<fromVersion, toVersion>> = <<renderedFrom, renderedTo>>
     /\ Len(filteredNewFeatures) = 0
     /\ Len(filteredDeprecatedFeatures) = 0)
    => /\ ~crashed
       /\ ShownMessage # ReferenceError
       /\ RangeValid(renderedFrom, renderedTo) =>
              ShownMessage = IF Truthy(searchQuery) \/ Len(selectedCategories) > 0
                             THEN MsgNoMatch ELSE MsgNoNewFeatures

====
